---- MODULE Spec2Model ----
(***************************************************************************)
(* The Cairo back-end of the Piet 2D graphics abstraction                  *)
(* (piet-cairo/src/lib.rs): the render context driving one stateful cairo  *)
(* Context, the pixel-format conversion of make_image and the path         *)
(* lowering of set_path.                                                   *)
(*                                                                         *)
(* Conventions.  u8/u16 arithmetic keeps its width (% 256, % 65536).  A    *)
(* packed u32 RGBA colour is held as its four bytes <<r, g, b, a>>, most   *)
(* significant first.  f64 coordinates are integers; the inputs are chosen *)
(* so that every division and every 2/3 factor is exact.  Option<T> is the *)
(* record None or Some(v).                                                 *)
(***************************************************************************)
EXTENDS Integers, Sequences, FiniteSets, TLC

VARIABLES
    ctx,    \* the cairo Context behind CairoRenderContext.ctx
    last,   \* the last call made: its name, arguments, entry state and result
    nOps    \* number of calls made so far

vars == <<ctx, last, nOps>>

----------------------------------------------------------------------------
(* Bounds of the model *)

MaxOps == 3        \* calls per behaviour
MaxDim == 2        \* image width and height in make_image
MaxPathLen == 4    \* elements of a path element stream in set_path

----------------------------------------------------------------------------
(* Option and small helpers *)

None == [some |-> FALSE]
Some(v) == [some |-> TRUE, v |-> v]

Ok == [ok |-> TRUE]
Err(e) == [ok |-> FALSE, err |-> e]

Byte == 0..255

RECURSIVE Count(_, _)
Count(s, x) ==
    IF s = <<>> THEN 0
    ELSE (IF Head(s) = x THEN 1 ELSE 0) + Count(Tail(s), x)

----------------------------------------------------------------------------
(* premul, the fixed-point premultiplication nested in make_image *)

premul(x, a) ==
    LET y == (x * a) % 65536
    IN  (((y + (y \div 256) + 128) % 65536) \div 256) % 256

\* The two u16 intermediates of premul before they are narrowed.
premulWide(x, a) ==
    LET y == (x * a) % 65536
    IN  [mul |-> x * a, sum |-> y + (y \div 256) + 128]

----------------------------------------------------------------------------
(* make_image *)

ImageFormats == {"Rgb", "RgbaSeparate", "RgbaPremul", "_NonExhaustive"}

bytes_per_pixel(format) == IF format = "Rgb" THEN 3 ELSE 4

\* cairo's stride for its two 32-bit formats.
get_stride(width) == 4 * width

\* ImageSurface::create: a surface whose bytes all hold init.
ImageSurface_create(cairo_fmt, width, height, init) ==
    [format |-> cairo_fmt, width |-> width, height |-> height,
     stride |-> get_stride(width),
     data |-> [i \in 0..(get_stride(width) * height - 1) |-> init]]

RECURSIVE RowRgbNoSwap(_, _, _, _, _, _)
RowRgbNoSwap(data, buf, dst_off, src_off, x, width) ==
    IF x >= width THEN data
    ELSE RowRgbNoSwap(
            [data EXCEPT ![dst_off + x * 4 + 0] = buf[src_off + x * 3 + 0],
                         ![dst_off + x * 4 + 1] = buf[src_off + x * 3 + 1],
                         ![dst_off + x * 4 + 2] = buf[src_off + x * 3 + 2]],
            buf, dst_off, src_off, x + 1, width)

RECURSIVE RowRgb(_, _, _, _, _, _)
RowRgb(data, buf, dst_off, src_off, x, width) ==
    IF x >= width THEN data
    ELSE RowRgb(
            [data EXCEPT ![dst_off + x * 4 + 0] = buf[src_off + x * 3 + 2],
                         ![dst_off + x * 4 + 1] = buf[src_off + x * 3 + 1],
                         ![dst_off + x * 4 + 2] = buf[src_off + x * 3 + 0]],
            buf, dst_off, src_off, x + 1, width)

RECURSIVE RowRgbaPremul(_, _, _, _, _, _)
RowRgbaPremul(data, buf, dst_off, src_off, x, width) ==
    IF x >= width THEN data
    ELSE RowRgbaPremul(
            [data EXCEPT ![dst_off + x * 4 + 0] = buf[src_off + x * 4 + 2],
                         ![dst_off + x * 4 + 1] = buf[src_off + x * 4 + 1],
                         ![dst_off + x * 4 + 2] = buf[src_off + x * 4 + 0],
                         ![dst_off + x * 4 + 3] = buf[src_off + x * 4 + 3]],
            buf, dst_off, src_off, x + 1, width)

RECURSIVE RowRgbaSeparate(_, _, _, _, _, _)
RowRgbaSeparate(data, buf, dst_off, src_off, x, width) ==
    IF x >= width THEN data
    ELSE LET a == buf[src_off + x * 4 + 3]
         IN  RowRgbaSeparate(
                [data EXCEPT
                    ![dst_off + x * 4 + 0] = premul(buf[src_off + x * 4 + 2], a),
                    ![dst_off + x * 4 + 1] = premul(buf[src_off + x * 4 + 1], a),
                    ![dst_off + x * 4 + 2] = premul(buf[src_off + x * 4 + 0], a),
                    ![dst_off + x * 4 + 3] = a],
                buf, dst_off, src_off, x + 1, width)

\* One row of the for-y loop: the match on the format.
ConvertRow(data, buf, dst_off, src_off, width, format) ==
    CASE format = "Rgb" -> RowRgb(data, buf, dst_off, src_off, 0, width)
      [] format = "RgbaPremul" -> RowRgbaPremul(data, buf, dst_off, src_off, 0, width)
      [] format = "RgbaSeparate" -> RowRgbaSeparate(data, buf, dst_off, src_off, 0, width)

RECURSIVE ConvertRows(_, _, _, _, _, _, _, _)
ConvertRows(data, buf, y, width, height, bytes_per_row, stride, format) ==
    IF y >= height THEN data
    ELSE ConvertRows(
            ConvertRow(data, buf, y * stride, y * bytes_per_row, width, format),
            buf, y + 1, width, height, bytes_per_row, stride, format)

\* A variant that allocates the surface before it looks at the format.
make_imageLateCheck(width, height, buf, format, init, createErr) ==
    IF createErr
    THEN [ret |-> Err("Status"), created |-> FALSE]
    ELSE LET image == ImageSurface_create(IF format = "Rgb" THEN "Rgb24" ELSE "ARgb32",
                                          width, height, init)
         IN  IF format \notin {"Rgb", "RgbaSeparate", "RgbaPremul"}
             THEN [ret |-> Err("NotSupported"), created |-> TRUE]
             ELSE [ret |-> Ok, created |-> TRUE,
                   image |-> [image EXCEPT !.data =
                        ConvertRows(image.data, buf, 0, width, height,
                                    width * bytes_per_pixel(format),
                                    image.stride, format)]]

\* make_image: the result, and whether a surface was created.  createErr:
\* ImageSurface::create reports an error status.  init: the contents of a
\* new surface.
make_image(width, height, buf, format, init, createErr) ==
    IF format \notin {"Rgb", "RgbaSeparate", "RgbaPremul"}
    THEN [ret |-> Err("NotSupported"), created |-> FALSE]
    ELSE LET cairo_fmt == IF format = "Rgb" THEN "Rgb24" ELSE "ARgb32"
         IN  IF createErr
             THEN [ret |-> Err("Status"), created |-> FALSE]
             ELSE LET image == ImageSurface_create(cairo_fmt, width, height, init)
                      bpp == bytes_per_pixel(format)
                      bytes_per_row == width * bpp
                      stride == image.stride
                  IN  [ret |-> Ok, created |-> TRUE,
                       image |-> [image EXCEPT !.data =
                            ConvertRows(image.data, buf, 0, width, height,
                                        bytes_per_row, stride, format)]]

\* Source buffers: n bytes, all different along a pixel.
BufSeeds == {0, 100, 255}
Buf(n, seed) == [i \in 0..(n - 1) |-> (seed + 50 * i) % 256]

\* A new surface is zero-filled in practice; cairo leaves the bits a format
\* does not use undefined.
SurfaceInits == {0, 255}

----------------------------------------------------------------------------
(* The cairo Context: the engine the render context drives.                *)
(* Once the status is not Success it stays so and every call is ignored.   *)
(* log holds the engine calls issued by the call in progress, quads the    *)
(* QuadTo elements lowered by it; both are emptied when a call starts.     *)

\* The target surface: two pixels.
Pixels == {1, 2}

Blank == [k |-> "Blank"]
Opaque(r, g, b) == [k |-> "Opaque", rgb |-> <<r, g, b>>]
Mixed == [k |-> "Mixed"]

Identity == [xx |-> 1, yx |-> 0, xy |-> 0, yy |-> 1, x0 |-> 0, y0 |-> 0]

DefaultLine ==
    [width |-> 2, cap |-> "cairo::LineCap::Butt", join |-> "cairo::LineJoin::Miter",
     miter |-> 10,
     dash |-> <<>>, offset |-> 0]

NewContext ==
    [status |-> "Success",
     stack |-> <<>>,
     matrix |-> Identity,
     clip |-> Pixels,
     source |-> [kind |-> "rgba", r |-> 0, g |-> 0, b |-> 0, a |-> 255],
     line |-> DefaultLine,
     fill_rule |-> "cairo::FillRule::Winding",
     font |-> "default",
     path |-> <<>>,
     surface |-> [p \in Pixels |-> Blank],
     log |-> <<>>,
     quads |-> <<>>]

Live(c) == c.status = "Success"

\* An engine call: issued always, carried out only while the status is Success.
Issue(c, name, done) ==
    [(IF Live(c) THEN done ELSE c) EXCEPT !.log = Append(c.log, name)]

GState(c) ==
    [matrix |-> c.matrix, clip |-> c.clip, source |-> c.source,
     line |-> c.line, fill_rule |-> c.fill_rule, font |-> c.font]

cairo_status(c) == c.status

cairo_save(c) ==
    Issue(c, "save", [c EXCEPT !.stack = Append(c.stack, GState(c))])

\* A restore with nothing saved is cairo's INVALID_RESTORE error.
cairo_restore(c) ==
    Issue(c, "restore",
        IF c.stack = <<>>
        THEN [c EXCEPT !.status = "InvalidRestore"]
        ELSE LET g == c.stack[Len(c.stack)]
             IN  [c EXCEPT !.stack = SubSeq(c.stack, 1, Len(c.stack) - 1),
                           !.matrix = g.matrix, !.clip = g.clip,
                           !.source = g.source, !.line = g.line,
                           !.fill_rule = g.fill_rule, !.font = g.font])

\* cairo_matrix_multiply(a, b): a applied first, then b.
MatMul(a, b) ==
    [xx |-> a.xx * b.xx + a.yx * b.xy,
     yx |-> a.xx * b.yx + a.yx * b.yy,
     xy |-> a.xy * b.xx + a.yy * b.xy,
     yy |-> a.xy * b.yx + a.yy * b.yy,
     x0 |-> a.x0 * b.xx + a.y0 * b.xy + b.x0,
     y0 |-> a.x0 * b.yx + a.y0 * b.yy + b.y0]

\* A transform that cannot be inverted, a translation that is not finite and
\* a scale factor that is zero or not finite are cairo's INVALID_MATRIX error.
cairo_transform(c, m) ==
    Issue(c, "transform",
        IF m.xx * m.yy - m.yx * m.xy = 0
        THEN [c EXCEPT !.status = "InvalidMatrix"]
        ELSE [c EXCEPT !.matrix = MatMul(m, c.matrix)])

\* f64 values that may be infinite or NaN.
Fin(v) == [fin |-> TRUE, v |-> v]
NonFinite == [fin |-> FALSE]
FDiv(a, b) == IF b = 0 THEN NonFinite ELSE Fin(a \div b)
FMul(a, b) == IF a.fin /\ b.fin THEN Fin(a.v * b.v) ELSE NonFinite
FSub(a, b) == IF a.fin /\ b.fin THEN Fin(a.v - b.v) ELSE NonFinite

cairo_translate(c, tx, ty) ==
    Issue(c, "translate",
        IF ~(tx.fin /\ ty.fin)
        THEN [c EXCEPT !.status = "InvalidMatrix"]
        ELSE [c EXCEPT !.matrix =
                MatMul([Identity EXCEPT !.x0 = tx.v, !.y0 = ty.v], c.matrix)])

cairo_scale(c, sx, sy) ==
    Issue(c, "scale",
        IF ~(sx.fin /\ sy.fin) \/ sx.v * sy.v = 0
        THEN [c EXCEPT !.status = "InvalidMatrix"]
        ELSE [c EXCEPT !.matrix =
                MatMul([Identity EXCEPT !.xx = sx.v, !.yy = sy.v], c.matrix)])

\* Path construction.  The current point is that of the last element; after
\* close_path it is the start of the closed subpath.
RECURSIVE LastMove(_)
LastMove(path) ==
    IF path = <<>> THEN None
    ELSE IF path[Len(path)].op = "move_to" THEN Some(path[Len(path)].p)
    ELSE LastMove(SubSeq(path, 1, Len(path) - 1))

CurrentPoint(path) ==
    IF path = <<>> THEN None
    ELSE LET e == path[Len(path)]
         IN  CASE e.op \in {"move_to", "line_to"} -> Some(e.p)
               [] e.op = "curve_to" -> Some(e.p3)
               [] e.op = "close_path" -> LastMove(path)

MoveEl(p) == [op |-> "move_to", p |-> p]

cairo_new_path(c) == Issue(c, "new_path", [c EXCEPT !.path = <<>>])

cairo_move_to(c, p) ==
    Issue(c, "move_to", [c EXCEPT !.path = Append(c.path, MoveEl(p))])

cairo_line_to(c, p) ==
    Issue(c, "line_to",
        [c EXCEPT !.path = Append(c.path,
            IF CurrentPoint(c.path).some THEN [op |-> "line_to", p |-> p]
            ELSE MoveEl(p))])

cairo_curve_to(c, p1, p2, p3) ==
    Issue(c, "curve_to",
        [c EXCEPT !.path = Append(
            IF CurrentPoint(c.path).some THEN c.path ELSE Append(c.path, MoveEl(p1)),
            [op |-> "curve_to", p1 |-> p1, p2 |-> p2, p3 |-> p3])])

cairo_close_path(c) ==
    Issue(c, "close_path",
        IF CurrentPoint(c.path).some
        THEN [c EXCEPT !.path = Append(c.path, [op |-> "close_path"])]
        ELSE c)

\* Sources and painting.  cov is the set of surface pixels the rasteriser
\* finds inside the shape drawn; painting reaches only the pixels of the clip.
Composite(src, old) ==
    IF src.kind = "rgba" /\ src.a = 255 THEN Opaque(src.r, src.g, src.b)
    ELSE IF src.kind = "rgba" /\ src.a = 0 THEN old
    ELSE Mixed

PaintOver(c, cov) ==
    [p \in Pixels |->
        IF p \in cov \cap c.clip THEN Composite(c.source, c.surface[p])
        ELSE c.surface[p]]

cairo_set_source_rgb(c, r, g, b) ==
    Issue(c, "set_source_rgb",
        [c EXCEPT !.source = [kind |-> "rgba", r |-> r, g |-> g, b |-> b, a |-> 255]])

cairo_set_source_rgba(c, r, g, b, a) ==
    Issue(c, "set_source_rgba",
        [c EXCEPT !.source = [kind |-> "rgba", r |-> r, g |-> g, b |-> b, a |-> a]])

cairo_set_source(c, pattern) ==
    Issue(c, "set_source", [c EXCEPT !.source = pattern])

cairo_set_fill_rule(c, rule) ==
    Issue(c, "set_fill_rule", [c EXCEPT !.fill_rule = rule])

cairo_paint(c) ==
    Issue(c, "paint", [c EXCEPT !.surface = PaintOver(c, Pixels)])

cairo_fill(c, cov) ==
    Issue(c, "fill", [c EXCEPT !.surface = PaintOver(c, cov), !.path = <<>>])

cairo_stroke(c, cov) ==
    Issue(c, "stroke", [c EXCEPT !.surface = PaintOver(c, cov), !.path = <<>>])

cairo_clip(c, cov) ==
    Issue(c, "clip", [c EXCEPT !.clip = c.clip \cap cov, !.path = <<>>])

cairo_set_line_width(c, w) ==
    Issue(c, "set_line_width", [c EXCEPT !.line.width = w])

cairo_set_line_join(c, j) ==
    Issue(c, "set_line_join", [c EXCEPT !.line.join = j])

cairo_set_line_cap(c, k) ==
    Issue(c, "set_line_cap", [c EXCEPT !.line.cap = k])

cairo_set_miter_limit(c, m) ==
    Issue(c, "set_miter_limit", [c EXCEPT !.line.miter = m])

cairo_set_dash(c, dashes, offset) ==
    Issue(c, "set_dash", [c EXCEPT !.line.dash = dashes, !.line.offset = offset])

cairo_set_scaled_font(c, font) ==
    Issue(c, "set_scaled_font", [c EXCEPT !.font = font])

\* show_text paints the glyphs and moves the current point past them; an
\* empty text leaves the path as it is.
cairo_show_text(c, text, cov) ==
    Issue(c, "show_text",
        IF text.advance = 0 THEN c
        ELSE LET cur == CurrentPoint(c.path)
                 org == IF cur.some THEN cur.v ELSE <<0, 0>>
             IN  [c EXCEPT !.surface = PaintOver(c, cov),
                           !.path = Append(c.path,
                                MoveEl(<<org[1] + text.advance, org[2]>>))])

----------------------------------------------------------------------------
(* CairoRenderContext: the operations of the render context, each a        *)
(* function of the Context it drives.                                      *)

\* rgba >> bits, as far as its low 24 bits; rgba is <<r, g, b, a>>.
Shr(rgba, bits) ==
    CASE bits = 24 -> rgba[1]
      [] bits = 16 -> rgba[1] * 256 + rgba[2]
      [] bits = 8 -> rgba[1] * 65536 + rgba[2] * 256 + rgba[3]
      [] bits = 0 -> rgba[2] * 65536 + rgba[3] * 256 + rgba[4]

\* The fraction byte/255, held as its numerator.
byte_to_frac(byte) == byte % 256

statusAlwaysOk(c) == Ok

status(c) ==
    IF cairo_status(c) = "Success" THEN Ok ELSE Err(cairo_status(c))

clear(c, color) ==
    LET rgba == color
        c1 == cairo_set_source_rgb(c, byte_to_frac(Shr(rgba, 24)),
                                      byte_to_frac(Shr(rgba, 16)),
                                      byte_to_frac(Shr(rgba, 8)))
    IN  cairo_paint(c1)

set_brush(c, brush) ==
    CASE brush.kind = "Solid" ->
            cairo_set_source_rgba(c, byte_to_frac(Shr(brush.rgba, 24)),
                                     byte_to_frac(Shr(brush.rgba, 16)),
                                     byte_to_frac(Shr(brush.rgba, 8)),
                                     byte_to_frac(Shr(brush.rgba, 0)))
      [] brush.kind = "Linear" -> cairo_set_source(c, [kind |-> "linear"])
      [] brush.kind = "Radial" -> cairo_set_source(c, [kind |-> "radial"])

convert_line_cap(line_cap) ==
    CASE line_cap = "LineCap::Butt" -> "cairo::LineCap::Butt"
      [] line_cap = "LineCap::Round" -> "cairo::LineCap::Round"
      [] line_cap = "LineCap::Square" -> "cairo::LineCap::Square"

convert_line_join(line_join) ==
    CASE line_join = "LineJoin::Miter" -> "cairo::LineJoin::Miter"
      [] line_join = "LineJoin::Round" -> "cairo::LineJoin::Round"
      [] line_join = "LineJoin::Bevel" -> "cairo::LineJoin::Bevel"

\* style.and_then(|style| style.field)
AndThen(style, field) == IF style.some THEN style.v[field] ELSE None
UnwrapOr(opt, default) == IF opt.some THEN opt.v ELSE default

\* A variant that sets a dash pattern only when the style carries one.
set_strokeKeepDash(c, width, style) ==
    LET c1 == cairo_set_line_width(c, width)
        c2 == cairo_set_line_join(c1,
                convert_line_join(UnwrapOr(AndThen(style, "line_join"), "LineJoin::Miter")))
        c3 == cairo_set_line_cap(c2,
                convert_line_cap(UnwrapOr(AndThen(style, "line_cap"), "LineCap::Butt")))
        c4 == cairo_set_miter_limit(c3, UnwrapOr(AndThen(style, "miter_limit"), 10))
        dash == AndThen(style, "dash")
    IN  IF dash.some THEN cairo_set_dash(c4, dash.v[1], dash.v[2]) ELSE c4

set_stroke(c, width, style) ==
    LET c1 == cairo_set_line_width(c, width)
        line_join == UnwrapOr(AndThen(style, "line_join"), "LineJoin::Miter")
        c2 == cairo_set_line_join(c1, convert_line_join(line_join))
        line_cap == UnwrapOr(AndThen(style, "line_cap"), "LineCap::Butt")
        c3 == cairo_set_line_cap(c2, convert_line_cap(line_cap))
        miter_limit == UnwrapOr(AndThen(style, "miter_limit"), 10)
        c4 == cairo_set_miter_limit(c3, miter_limit)
        dash == AndThen(style, "dash")
    IN  IF ~dash.some THEN cairo_set_dash(c4, <<>>, 0)
        ELSE cairo_set_dash(c4, dash.v[1], dash.v[2])

\* QuadBez::new(p0, p1, p2).raise(): the two inner control points of the cubic.
\* Coordinates are multiples of 3, so the factor 2/3 is exact.
raise(p0, p1, p2) ==
    [p1 |-> <<p0[1] + 2 * ((p1[1] - p0[1]) \div 3), p0[2] + 2 * ((p1[2] - p0[2]) \div 3)>>,
     p2 |-> <<p2[1] + 2 * ((p1[1] - p2[1]) \div 3), p2[2] + 2 * ((p1[2] - p2[2]) \div 3)>>]

\* The loop of set_path over the elements from index i on; lastPt is `last`.
RECURSIVE LowerPath(_, _, _, _)
LowerPath(c, els, i, lastPt) ==
    IF i > Len(els) THEN c
    ELSE LET el == els[i]
         IN  CASE el.el = "MoveTo" ->
                    LowerPath(cairo_move_to(c, el.p), els, i + 1, el.p)
               [] el.el = "LineTo" ->
                    LowerPath(cairo_line_to(c, el.p), els, i + 1, el.p)
               [] el.el = "QuadTo" ->
                    LET q == raise(lastPt, el.p1, el.p2)
                        seen == [c EXCEPT !.quads = Append(c.quads,
                                    [tracked |-> Some(lastPt),
                                     engine |-> CurrentPoint(c.path)])]
                    IN  LowerPath(cairo_curve_to(seen, q.p1, q.p2, el.p2),
                                  els, i + 1, el.p2)
               [] el.el = "CurveTo" ->
                    LowerPath(cairo_curve_to(c, el.p1, el.p2, el.p3), els, i + 1, el.p3)
               [] el.el = "ClosePath" ->
                    LowerPath(cairo_close_path(c), els, i + 1, lastPt)

\* shape.to_bez_path(1e-3) is the shape's element stream shape.els.
set_path(c, shape) ==
    LowerPath(cairo_new_path(c), shape.els, 1, <<0, 0>>)

fill(c, shape, brush, cov) ==
    LET c1 == set_path(c, shape)
        c2 == set_brush(c1, brush)
        c3 == cairo_set_fill_rule(c2, "cairo::FillRule::Winding")
    IN  cairo_fill(c3, cov)

fill_even_odd(c, shape, brush, cov) ==
    LET c1 == set_path(c, shape)
        c2 == set_brush(c1, brush)
        c3 == cairo_set_fill_rule(c2, "cairo::FillRule::EvenOdd")
    IN  cairo_fill(c3, cov)

clip(c, shape, cov) ==
    LET c1 == set_path(c, shape)
        c2 == cairo_set_fill_rule(c1, "cairo::FillRule::Winding")
    IN  cairo_clip(c2, cov)

stroke(c, shape, brush, width, cov) ==
    LET c1 == set_path(c, shape)
        c2 == set_stroke(c1, width, None)
        c3 == set_brush(c2, brush)
    IN  cairo_stroke(c3, cov)

stroke_styled(c, shape, brush, width, style, cov) ==
    LET c1 == set_path(c, shape)
        c2 == set_stroke(c1, width, Some(style))
        c3 == set_brush(c2, brush)
    IN  cairo_stroke(c3, cov)

draw_text(c, layout, pos, brush, cov) ==
    LET c1 == cairo_set_scaled_font(c, layout.font)
        c2 == set_brush(c1, brush)
        c3 == cairo_move_to(c2, pos)
    IN  cairo_show_text(c3, layout.text, cov)

\* save and restore: the engine call; what they return is status() of the
\* Context they leave.
save(c) == cairo_save(c)

restore(c) == cairo_restore(c)

affine_to_matrix(a) ==
    [xx |-> a[1], yx |-> a[2], xy |-> a[3], yy |-> a[4], x0 |-> a[5], y0 |-> a[6]]

transform(c, affine) == cairo_transform(c, affine_to_matrix(affine))

\* Rect, and the element stream of a Rect.
RectOf(x0, y0, x1, y1) == [x0 |-> x0, y0 |-> y0, x1 |-> x1, y1 |-> y1]
RectWidth(r) == r.x1 - r.x0
RectHeight(r) == r.y1 - r.y0
RectShape(r) ==
    [els |-> << [el |-> "MoveTo", p |-> <<r.x0, r.y0>>],
                [el |-> "LineTo", p |-> <<r.x1, r.y0>>],
                [el |-> "LineTo", p |-> <<r.x1, r.y1>>],
                [el |-> "LineTo", p |-> <<r.x0, r.y1>>],
                [el |-> "ClosePath"] >>]

\* The closure draw_image passes to with_save; cl holds what it captures.
draw_image_body(rc, cl) ==
    LET image == cl.image
        src_rect == cl.src_rect
        dst_rect == cl.dst_rect
        interp == cl.interp
        cov == cl.cov
        filter == IF interp = "NearestNeighbor" THEN "Filter::Nearest"
                  ELSE "Filter::Bilinear"
        surface_pattern == [kind |-> "surface", image |-> image, filter |-> filter]
        src == IF src_rect.some THEN src_rect.v
               ELSE RectOf(0, 0, image.width, image.height)
        scale_x == FDiv(RectWidth(dst_rect), RectWidth(src))
        scale_y == FDiv(RectHeight(dst_rect), RectHeight(src))
        c1 == clip(rc, RectShape(dst_rect), cov)
        c2 == cairo_translate(c1,
                FSub(Fin(dst_rect.x0), FMul(scale_x, Fin(src.x0))),
                FSub(Fin(dst_rect.y0), FMul(scale_y, Fin(src.y0))))
        c3 == cairo_scale(c2, scale_x, scale_y)
        c4 == cairo_set_source(c3, surface_pattern)
    IN  cairo_paint(c4)

\* RenderContext::with_save: save, the enclosed operations of the closure,
\* and one restore when the scope is left.
with_save(c, cl) == restore(draw_image_body(save(c), cl))

draw_image(c, image, src_rect, dst_rect, interp, cov) ==
    with_save(c, [image |-> image, src_rect |-> src_rect, dst_rect |-> dst_rect,
                  interp |-> interp, cov |-> cov])

----------------------------------------------------------------------------
(* Arguments the calls are made with *)

Colors == { <<255, 0, 0, 255>>, <<0, 0, 255, 128>> }

Brushes == { [kind |-> "Solid", rgba |-> <<255, 0, 0, 255>>], [kind |-> "Linear"] }

\* What the rasteriser finds inside a shape: part of the surface, or all of it.
Covers == { {1}, Pixels }

QuadShape ==
    [els |-> << [el |-> "MoveTo", p |-> <<0, 0>>],
                [el |-> "QuadTo", p1 |-> <<3, 3>>, p2 |-> <<3, 0>>],
                [el |-> "ClosePath"] >>]

Shapes == { QuadShape }

Widths == {3}

PlainStyle ==
    [line_join |-> None, line_cap |-> None, dash |-> None, miter_limit |-> None]

\* Dash patterns are valid ones: positive lengths.
Styles ==
    { PlainStyle,
      [PlainStyle EXCEPT !.dash = Some(<< <<2, 1>>, 1 >>)],
      [line_join |-> Some("LineJoin::Bevel"), line_cap |-> Some("LineCap::Round"),
       dash |-> None, miter_limit |-> Some(4)] }

\* An empty text and one that advances the current point.
Layouts ==
    { [font |-> "font", text |-> [advance |-> 0]],
      [font |-> "font", text |-> [advance |-> 3]] }

Positions == { <<3, 3>> }

\* A translation and a singular transform.
Affines == { <<1, 0, 0, 1, 3, 0>>, <<0, 0, 0, 0, 0, 0>> }

Images == { [width |-> 1, height |-> 1] }

\* Destination and source rectangles, each set with one of zero width.
DstRects == { RectOf(0, 0, 2, 2), RectOf(2, 0, 2, 2) }
SrcRects == { RectOf(0, 0, 1, 1), RectOf(1, 0, 1, 1) }

Interps == {"NearestNeighbor", "Bilinear"}

PathPoints == { <<3, 0>>, <<0, 3>> }

PathEls ==
    { [el |-> "MoveTo", p |-> p] : p \in PathPoints }
    \cup { [el |-> "LineTo", p |-> p] : p \in PathPoints }
    \cup { [el |-> "QuadTo", p1 |-> p1, p2 |-> p2] : p1 \in PathPoints, p2 \in PathPoints }
    \cup { [el |-> "CurveTo", p1 |-> p1, p2 |-> p2, p3 |-> p3] :
                p1 \in PathPoints, p2 \in PathPoints, p3 \in PathPoints }
    \cup { [el |-> "ClosePath"] }

PathShapes ==
    { [els |-> els] : els \in UNION { [1..n -> PathEls] : n \in 0..MaxPathLen } }

----------------------------------------------------------------------------
(* The render context: one action per operation *)

\* The Context as a call finds it.
Entry(c) == [c EXCEPT !.log = <<>>, !.quads = <<>>]

Init ==
    /\ ctx = NewContext
    /\ last = [op |-> "new"]
    /\ nOps = 0

Status ==
    /\ nOps < MaxOps
    /\ ctx' = Entry(ctx)
    /\ last' = [op |-> "status", pre |-> Entry(ctx), ret |-> status(Entry(ctx))]
    /\ nOps' = nOps + 1

Finish ==
    /\ nOps < MaxOps
    /\ ctx' = Entry(ctx)
    /\ last' = [op |-> "finish", pre |-> Entry(ctx), ret |-> status(Entry(ctx))]
    /\ nOps' = nOps + 1

Save ==
    /\ nOps < MaxOps
    /\ ctx' = save(Entry(ctx))
    /\ last' = [op |-> "save", pre |-> Entry(ctx), ret |-> status(ctx')]
    /\ nOps' = nOps + 1

Restore ==
    /\ nOps < MaxOps
    /\ ctx' = restore(Entry(ctx))
    /\ last' = [op |-> "restore", pre |-> Entry(ctx), ret |-> status(ctx')]
    /\ nOps' = nOps + 1

Clear ==
    /\ nOps < MaxOps
    /\ \E color \in Colors :
        /\ ctx' = clear(Entry(ctx), color)
        /\ last' = [op |-> "clear", pre |-> Entry(ctx), color |-> color]
    /\ nOps' = nOps + 1

Fill ==
    /\ nOps < MaxOps
    /\ \E shape \in Shapes, brush \in Brushes, cov \in Covers :
        /\ ctx' = fill(Entry(ctx), shape, brush, cov)
        /\ last' = [op |-> "fill", pre |-> Entry(ctx)]
    /\ nOps' = nOps + 1

FillEvenOdd ==
    /\ nOps < MaxOps
    /\ \E shape \in Shapes, brush \in Brushes, cov \in Covers :
        /\ ctx' = fill_even_odd(Entry(ctx), shape, brush, cov)
        /\ last' = [op |-> "fill_even_odd", pre |-> Entry(ctx)]
    /\ nOps' = nOps + 1

Clip ==
    /\ nOps < MaxOps
    /\ \E shape \in Shapes, cov \in Covers :
        /\ ctx' = clip(Entry(ctx), shape, cov)
        /\ last' = [op |-> "clip", pre |-> Entry(ctx)]
    /\ nOps' = nOps + 1

Stroke ==
    /\ nOps < MaxOps
    /\ \E shape \in Shapes, brush \in Brushes, width \in Widths, cov \in Covers :
        /\ ctx' = stroke(Entry(ctx), shape, brush, width, cov)
        /\ last' = [op |-> "stroke", pre |-> Entry(ctx),
                    width |-> width, style |-> None]
    /\ nOps' = nOps + 1

StrokeStyled ==
    /\ nOps < MaxOps
    /\ \E shape \in Shapes, brush \in Brushes, width \in Widths,
          style \in Styles, cov \in Covers :
        /\ ctx' = stroke_styled(Entry(ctx), shape, brush, width, style, cov)
        /\ last' = [op |-> "stroke_styled", pre |-> Entry(ctx),
                    width |-> width, style |-> Some(style)]
    /\ nOps' = nOps + 1

DrawText ==
    /\ nOps < MaxOps
    /\ \E layout \in Layouts, pos \in Positions, brush \in Brushes, cov \in Covers :
        /\ ctx' = draw_text(Entry(ctx), layout, pos, brush, cov)
        /\ last' = [op |-> "draw_text", pre |-> Entry(ctx)]
    /\ nOps' = nOps + 1

Transform ==
    /\ nOps < MaxOps
    /\ \E affine \in Affines :
        /\ ctx' = transform(Entry(ctx), affine)
        /\ last' = [op |-> "transform", pre |-> Entry(ctx), affine |-> affine]
    /\ nOps' = nOps + 1

DrawImage ==
    /\ nOps < MaxOps
    /\ \E image \in Images, dst_rect \in DstRects, interp \in Interps, cov \in Covers :
        /\ ctx' = draw_image(Entry(ctx), image, None, dst_rect, interp, cov)
        /\ last' = [op |-> "draw_image", pre |-> Entry(ctx),
                    src_rect |-> None, dst_rect |-> dst_rect, image |-> image]
    /\ nOps' = nOps + 1

DrawImageArea ==
    /\ nOps < MaxOps
    /\ \E image \in Images, src_rect \in SrcRects, dst_rect \in DstRects,
          interp \in Interps, cov \in Covers :
        /\ ctx' = draw_image(Entry(ctx), image, Some(src_rect), dst_rect, interp, cov)
        /\ last' = [op |-> "draw_image_area", pre |-> Entry(ctx),
                    src_rect |-> Some(src_rect), dst_rect |-> dst_rect, image |-> image]
    /\ nOps' = nOps + 1

Next ==
    \/ Status \/ Finish \/ Save \/ Restore \/ Clear
    \/ Fill \/ FillEvenOdd \/ Clip \/ Stroke \/ StrokeStyled
    \/ DrawText \/ Transform \/ DrawImage \/ DrawImageArea

Spec == Init /\ [][Next]_vars

----------------------------------------------------------------------------
(* premul on every pair of bytes *)

PremulCall ==
    /\ last.op = "new"
    /\ \E x \in Byte, a \in Byte :
        last' = [op |-> "premul", x |-> x, a |-> a,
                 wide |-> premulWide(x, a), out |-> premul(x, a)]
    /\ UNCHANGED <<ctx, nOps>>

NextPremul == PremulCall

SpecPremul == Init /\ [][NextPremul]_vars

----------------------------------------------------------------------------
(* make_image, called on a render context in one of three states *)

InitImage ==
    /\ ctx \in { NewContext,
                 Entry(clear(NewContext, <<255, 0, 0, 255>>)),
                 Entry(restore(NewContext)) }
    /\ last = [op |-> "new"]
    /\ nOps = 0

MakeImage ==
    /\ last.op = "new"
    /\ \E width \in 0..MaxDim, height \in 0..MaxDim, seed \in BufSeeds,
          format \in ImageFormats, init \in SurfaceInits, createErr \in BOOLEAN :
        LET buf == Buf(width * height * bytes_per_pixel(format), seed)
        IN  last' = [op |-> "make_image", pre |-> ctx,
                     width |-> width, height |-> height, buf |-> buf,
                     format |-> format, init |-> init,
                     out |-> make_image(width, height, buf, format, init, createErr)]
    /\ UNCHANGED <<ctx, nOps>>

NextImage == MakeImage

SpecImage == InitImage /\ [][NextImage]_vars

----------------------------------------------------------------------------
(* set_path on every element stream of up to MaxPathLen elements *)

SetPath ==
    /\ last.op = "new"
    /\ \E shape \in PathShapes :
        /\ ctx' = set_path(Entry(ctx), shape)
        /\ last' = [op |-> "set_path", shape |-> shape]
    /\ UNCHANGED nOps

NextPath == SetPath

SpecPath == Init /\ [][NextPath]_vars

----------------------------------------------------------------------------
(* Properties *)

PathConsumers == {"fill", "fill_even_odd", "stroke", "stroke_styled", "clip"}
ImageDraws == {"draw_image", "draw_image_area"}
StatusCalls == {"status", "finish", "save", "restore"}

\* C1: draw_image and draw_image_area issue exactly one engine restore for
\* each engine save they issue, and the engine's save depth after the call
\* equals the depth before it, in every execution.
C1_SaveRestoreBalanced ==
    last.op \in ImageDraws =>
        /\ Count(ctx.log, "restore") = Count(ctx.log, "save")
        /\ Len(ctx.stack) = Len(last.pre.stack)

\* C2: the engine's path is empty immediately before and immediately after
\* every path-consuming operation (fill, fill_even_odd, stroke,
\* stroke_styled, clip) carried out by a working engine.
C2_PathEmptyAroundConsumers ==
    (last.op \in PathConsumers /\ Live(ctx)) =>
        /\ last.pre.path = <<>>
        /\ ctx.path = <<>>

\* The pixel (x, y) of the image made by the last make_image call.
PixelOk(x, y, alpha) ==
    LET d == last.out.image.data
        off == y * last.out.image.stride + 4 * x
        src == (y * last.width + x) * 3
    IN  /\ d[off + 0] = last.buf[src + 2]
        /\ d[off + 1] = last.buf[src + 1]
        /\ d[off + 2] = last.buf[src + 0]
        /\ d[off + 3] = alpha

RgbImageMade ==
    last.op = "make_image" /\ last.format = "Rgb" /\ last.out.ret.ok

\* C3 as stated: make_image with ImageFormat::Rgb sets the alpha byte of
\* every pixel to 255 and its colour bytes to the source's B, G, R.
C3_RgbAlphaOpaque ==
    RgbImageMade =>
        \A x \in 0..(last.width - 1), y \in 0..(last.height - 1) : PixelOk(x, y, 255)

\* C3 amended: make_image with ImageFormat::Rgb makes a Format::Rgb24
\* surface whose pixels hold the source's B, G, R in their three colour
\* bytes; the byte at offset 3, which Rgb24 does not use, is not written and
\* keeps the value the surface was created with.
C3_RgbSwappedAlphaUntouched ==
    RgbImageMade =>
        /\ last.out.image.format = "Rgb24"
        /\ \A x \in 0..(last.width - 1), y \in 0..(last.height - 1) :
                PixelOk(x, y, last.init)

C3_Witness ==
    RgbImageMade /\ last.width >= 2 /\ last.height >= 2 /\ last.init = 0

\* C4: premul, in u16 arithmetic, has no intermediate above 65535 and
\* returns x*a/255 rounded to the nearest integer; premul(255,255) = 255,
\* premul(0,a) = 0, premul(x,0) = 0, premul(255,128) = 128, premul(x,255) = x.
C4_PremulExact ==
    last.op = "premul" =>
        /\ last.wide.mul <= 65535
        /\ last.wide.sum <= 65535
        /\ last.out = (2 * last.x * last.a + 255) \div 510
        /\ (last.x = 255 /\ last.a = 255) => last.out = 255
        /\ last.x = 0 => last.out = 0
        /\ last.a = 0 => last.out = 0
        /\ (last.x = 255 /\ last.a = 128) => last.out = 128
        /\ last.a = 255 => last.out = last.x

\* C5: make_image with a format other than the three supported ones returns
\* NotSupported, creates no surface and changes nothing of the render context.
C5_UnsupportedFormat ==
    (last.op = "make_image" /\ last.format \notin {"Rgb", "RgbaSeparate", "RgbaPremul"}) =>
        /\ last.out.ret = Err("NotSupported")
        /\ ~last.out.created
        /\ "image" \notin DOMAIN last.out
        /\ ctx = last.pre

C5_Witness ==
    /\ last.op = "make_image"
    /\ last.format = "_NonExhaustive"
    /\ last.width > 0 /\ last.height > 0
    /\ last.out.ret = Err("NotSupported")

\* The cairo value of each line cap and line join.
CairoCap ==
    [k \in {"LineCap::Butt", "LineCap::Round", "LineCap::Square"} |->
        CASE k = "LineCap::Butt" -> "cairo::LineCap::Butt"
          [] k = "LineCap::Round" -> "cairo::LineCap::Round"
          [] k = "LineCap::Square" -> "cairo::LineCap::Square"]

CairoJoin ==
    [j \in {"LineJoin::Miter", "LineJoin::Round", "LineJoin::Bevel"} |->
        CASE j = "LineJoin::Miter" -> "cairo::LineJoin::Miter"
          [] j = "LineJoin::Round" -> "cairo::LineJoin::Round"
          [] j = "LineJoin::Bevel" -> "cairo::LineJoin::Bevel"]

\* The line state the arguments of one stroke call ask for.
ExpectedLine(width, style) ==
    LET given(f) == style.some /\ style.v[f].some
    IN  [width |-> width,
         cap |-> CairoCap[IF given("line_cap") THEN style.v.line_cap.v ELSE "LineCap::Butt"],
         join |-> CairoJoin[IF given("line_join") THEN style.v.line_join.v
                            ELSE "LineJoin::Miter"],
         miter |-> IF given("miter_limit") THEN style.v.miter_limit.v ELSE 10,
         dash |-> IF given("dash") THEN style.v.dash.v[1] ELSE <<>>,
         offset |-> IF given("dash") THEN style.v.dash.v[2] ELSE 0]

\* C6: after a stroke or stroke_styled call on a working engine, the
\* engine's line state (width, cap, join, miter limit, dash array, dash
\* phase) is the one the arguments of that call ask for, every absent style
\* field defaulted; nothing of an earlier call's style remains.
C6_LineStateFromLastStroke ==
    (last.op \in {"stroke", "stroke_styled"} /\ Live(ctx)) =>
        ctx.line = ExpectedLine(last.width, last.style)

C6_Witness ==
    /\ last.op = "stroke" /\ Live(ctx)
    /\ last.pre.line.dash # <<>>
    /\ ctx.line.dash = <<>> /\ ctx.line.offset = 0

\* C7: clear(color) on a working engine leaves every pixel of the surface
\* holding the colour, fully opaque.
C7_ClearPaintsWholeSurface ==
    (last.op = "clear" /\ Live(ctx)) =>
        \A p \in Pixels :
            ctx.surface[p] = Opaque(last.color[1], last.color[2], last.color[3])

C9_TrackedPointIsEnginePoint ==
    \A i \in 1..Len(ctx.quads) : ctx.quads[i].tracked = ctx.quads[i].engine

\* C10: draw_image and draw_image_area, called while the engine's status is
\* Success, leave the transform, the clip, the source and the save depth as
\* they were.
C10_DrawImageFrame ==
    (last.op \in ImageDraws /\ last.pre.status = "Success") =>
        /\ ctx.matrix = last.pre.matrix
        /\ ctx.clip = last.pre.clip
        /\ ctx.source = last.pre.source
        /\ Len(ctx.stack) = Len(last.pre.stack)

====
